---- MODULE Spec2Model ----
(***************************************************************************)
(* Spectral mesh segmentation (mesh_segmentation/segmentation.py).         *)
(*                                                                         *)
(* One call of segment_mesh is a sequence of stages; each stage is one     *)
(* action.  Floating point numbers are modelled as exact rationals         *)
(* <<num, den>> with den > 0, and the IEEE special values as <<0,0>> (NaN),*)
(* <<1,0>> (+inf) and <<-1,0>> (-inf); the numbers of the embedding are    *)
(* pairs of them, p + q * sqrt(2).  Face i of the model is face i-1 of     *)
(* the program (TLA+ sequences start at 1); cluster labels are the         *)
(* program's own 0-based labels.                                           *)
(***************************************************************************)
EXTENDS Integers, Sequences, FiniteSets, TLC

(***************************************************************************)
(* Bounds of the model.                                                    *)
(***************************************************************************)
MaxFaces == 3
MaxEdgeKeys == 2
MaxListings == 2
MaxCalls == 2

(***************************************************************************)
(* numpy float64 arithmetic, exact on rationals, IEEE on the specials.     *)
(***************************************************************************)
NaN == <<0, 0>>
PInf == <<1, 0>>
NInf == <<-1, 0>>

Abs(x) == IF x < 0 THEN -x ELSE x

Sign(x) == IF x < 0 THEN -1 ELSE IF x > 0 THEN 1 ELSE 0

RECURSIVE Gcd(_, _)
Gcd(a, b) == IF b = 0 THEN a ELSE Gcd(b, a % b)

\* the float with value n/d, d # 0, in lowest terms
Rat(n, d) ==
    LET g == Gcd(Abs(n), Abs(d))
        s == IF d < 0 THEN -1 ELSE 1
    IN  <<(s * n) \div g, (s * d) \div g>>

Num(i) == <<i, 1>>

IsNaN(a) == a = NaN

IsFinite(a) == a[2] # 0

RNeg(a) == <<-a[1], a[2]>>

RAdd(a, b) ==
    IF IsNaN(a) \/ IsNaN(b) THEN NaN
    ELSE IF ~IsFinite(a) THEN (IF ~IsFinite(b) /\ b # a THEN NaN ELSE a)
    ELSE IF ~IsFinite(b) THEN b
    ELSE Rat(a[1] * b[2] + b[1] * a[2], a[2] * b[2])

RSub(a, b) == RAdd(a, RNeg(b))

RMul(a, b) ==
    IF IsNaN(a) \/ IsNaN(b) THEN NaN
    ELSE IF ~IsFinite(a) \/ ~IsFinite(b)
         THEN (IF a[1] = 0 \/ b[1] = 0 THEN NaN
               ELSE <<Sign(a[1]) * Sign(b[1]), 0>>)
    ELSE Rat(a[1] * b[1], a[2] * b[2])

\* numpy true division: x/0 is +-inf, 0/0 is nan (a warning, not an error)
RDiv(a, b) ==
    IF IsNaN(a) \/ IsNaN(b) THEN NaN
    ELSE IF ~IsFinite(b)
         THEN (IF ~IsFinite(a) THEN NaN ELSE Num(0))
    ELSE IF b[1] = 0
         THEN (IF a[1] = 0 THEN NaN ELSE <<Sign(a[1]), 0>>)
    ELSE IF ~IsFinite(a) THEN <<Sign(a[1]) * Sign(b[1]), 0>>
    ELSE Rat(a[1] * b[2], a[2] * b[1])

\* a < b; every comparison with NaN is false
RLess(a, b) ==
    IF IsNaN(a) \/ IsNaN(b) THEN FALSE
    ELSE IF ~IsFinite(a) THEN (a = NInf /\ b # NInf)
    ELSE IF ~IsFinite(b) THEN b = PInf
    ELSE a[1] * b[2] < b[1] * a[2]

RLeq(a, b) == ~IsNaN(a) /\ ~IsNaN(b) /\ ~RLess(b, a)

RECURSIVE RSum(_)
RSum(s) == IF s = <<>> THEN Num(0) ELSE RAdd(RSum(SubSeq(s, 1, Len(s) - 1)), s[Len(s)])

\* numpy.mean: sum/len; the mean of an empty array is nan
Mean(s) == RDiv(RSum(s), Num(Len(s)))

(***************************************************************************)
(* The blend coefficients are given in tenths: 5 is 0.5, -1 is -0.1.       *)
(***************************************************************************)
CoefUnit == 10

Coef(c) == Rat(c, CoefUnit)

(***************************************************************************)
(* The mesh, as the program reads it: the number of polygons, each         *)
(* polygon's list of edge keys (a list: a polygon that runs along an edge  *)
(* twice lists its key twice), and the geometry the distance functions     *)
(* compute from the coordinates and normals.  geo[e] is the geodesic       *)
(* distance across edge e between the two faces of its list of adjacent    *)
(* faces, ang[<<i,j>>] = <<a, convex>> gives 1 - cos(angle between the     *)
(* normals of faces i and j) and whether the test                          *)
(* face1.normal.dot(center2 - center1) < 0 holds.  For i = j the angle is  *)
(* 0 and the test is 0 < 0.                                                *)
(***************************************************************************)
Faces(mesh) == 1..mesh.n

Range(s) == {s[x] : x \in 1..Len(s)}

\* the lists of at most MaxListings keys, in ascending order
EdgeKeyLists(keys) ==
    UNION {{s \in [1..len -> keys] : \A x \in 1..(len - 1) : s[x] <= s[x + 1]}
           : len \in 0..MaxListings}

IncidentFaces(n, ek, e) == {f \in 1..n : e \in Range(ek[f])}

Repeat(f, s) == [x \in 1..Len(s) |-> f]

\* the faces appended for an edge by the faces 1..upto: one entry for
\* every time a face lists the edge
RECURSIVE FaceList(_, _, _)
FaceList(ek, e, upto) ==
    IF upto = 0 THEN <<>>
    ELSE FaceList(ek, e, upto - 1) \o
         Repeat(upto, SelectSeq(ek[upto], LAMBDA x : x = e))

Meshes(n, keys, geoVals, angVals) ==
    UNION { LET pe == {e \in keys : Len(FaceList(ek, e, n)) = 2}
                ap == {FaceList(ek, e, n) : e \in pe}
                av == {a \in [ap -> angVals \cup {<<0, FALSE>>}] :
                          \A p \in ap : IF p[1] = p[2] THEN a[p] = <<0, FALSE>>
                                        ELSE a[p] \in angVals}
            IN  {[n |-> n, edge_keys |-> ek, geo |-> g, ang |-> a] :
                    g \in [pe -> geoVals], a \in av}
          : ek \in [1..n -> EdgeKeyLists(keys)] }

_geodesic_distance(mesh, edge) == Num(mesh.geo[edge])

_angular_distance(mesh, i, j, etaV) ==
    LET angular_distance == Num(mesh.ang[<<i, j>>][1])
    IN  IF mesh.ang[<<i, j>>][2]
        THEN RMul(angular_distance, etaV)
        ELSE angular_distance

(***************************************************************************)
(* _create_distance_matrix                                                 *)
(***************************************************************************)
KeysOf(mesh) == UNION {Range(mesh.edge_keys[f]) : f \in Faces(mesh)}

MaxKey(mesh) == IF KeysOf(mesh) = {} THEN 0
                ELSE CHOOSE e \in KeysOf(mesh) : \A x \in KeysOf(mesh) : x <= e

\* adj_faces_map[edge]: the faces that list the edge, in the order of
\* enumerate(faces), each as often as it lists the edge
AdjFaces(mesh, edge, upto) == FaceList(mesh.edge_keys, edge, upto)

AdjacencyMap(mesh) == [e \in KeysOf(mesh) |-> AdjFaces(mesh, e, mesh.n)]

\* the two entries an edge appends to row_indices, col_indices, Gval, Aval
EdgeEntries(mesh, edge, adj_faces, etaV) ==
    IF Len(adj_faces) = 2
    THEN LET i == adj_faces[1]
             j == adj_faces[2]
             Gtemp == _geodesic_distance(mesh, edge)
             Atemp == _angular_distance(mesh, i, j, etaV)
         IN  << [row |-> i, col |-> j, G |-> Gtemp, A |-> Atemp],
                [row |-> j, col |-> i, G |-> Gtemp, A |-> Atemp] >>
    ELSE <<>>

\* the loop over adj_faces_map.items(); the sums below do not depend on the
\* order of the edges
RECURSIVE Entries(_, _, _, _)
Entries(mesh, adj, upto, etaV) ==
    IF upto = 0 THEN <<>>
    ELSE Entries(mesh, adj, upto - 1, etaV) \o
         (IF upto \in DOMAIN adj
          THEN EdgeEntries(mesh, upto, adj[upto], etaV)
          ELSE <<>>)

\* values = delta * Gval / mean(Gval) + (1 - delta) * Aval / mean(Aval)
BlendValues(ents, deltaV) ==
    LET Gval == [x \in 1..Len(ents) |-> ents[x].G]
        Aval == [x \in 1..Len(ents) |-> ents[x].A]
    IN  [x \in 1..Len(ents) |->
            RAdd(RDiv(RMul(deltaV, Gval[x]), Mean(Gval)),
                 RDiv(RMul(RSub(Num(1), deltaV), Aval[x]), Mean(Aval)))]

\* csr_matrix((values, (rows, cols))): the stored positions are those
\* listed, and entries listed for the same position are added up
RECURSIVE SumAt(_, _, _, _)
SumAt(ents, values, pos, upto) ==
    IF upto = 0 THEN Num(0)
    ELSE IF <<ents[upto].row, ents[upto].col>> = pos
         THEN RAdd(SumAt(ents, values, pos, upto - 1), values[upto])
         ELSE SumAt(ents, values, pos, upto - 1)

csr_matrix(ents, values) ==
    [pos \in {<<ents[x].row, ents[x].col>> : x \in 1..Len(ents)} |->
        SumAt(ents, values, pos, Len(ents))]

DistanceMatrix(mesh, adj, deltaV, etaV) ==
    LET ents == Entries(mesh, adj, MaxKey(mesh), etaV)
    IN  csr_matrix(ents, BlendValues(ents, deltaV))

_create_distance_matrix(mesh, deltaV, etaV) ==
    DistanceMatrix(mesh, AdjacencyMap(mesh), deltaV, etaV)

(***************************************************************************)
(* scipy.sparse.csgraph.dijkstra(distance_matrix): from every source, the  *)
(* heap scan of the library.  A node is put on the heap, or has its value  *)
(* lowered, only if the new value compares <= the limit (+inf), so an edge *)
(* whose weight is NaN is never followed; a node that was never reached    *)
(* keeps the distance +inf.  With weights >= 0 the result does not depend  *)
(* on the order in which equal heap values are removed.                    *)
(***************************************************************************)
RECURSIVE DijkstraScan(_, _, _, _, _)
DijkstraScan(dm, n, val, heap, scanned) ==
    IF heap = {} THEN [f \in 1..n |-> IF f \in scanned THEN val[f] ELSE PInf]
    ELSE LET v == CHOOSE x \in heap : \A y \in heap :
                        RLess(val[x], val[y]) \/ (val[x] = val[y] /\ x <= y)
             nbrs == {u \in (1..n) \ (scanned \cup {v}) : <<v, u>> \in DOMAIN dm}
             next_val(u) == RAdd(val[v], dm[<<v, u>>])
             ok == {u \in nbrs : RLeq(next_val(u), PInf)}
             low == {u \in ok : u \notin heap \/ RLess(next_val(u), val[u])}
         IN  DijkstraScan(dm, n,
                          [f \in 1..n |-> IF f \in low THEN next_val(f) ELSE val[f]],
                          (heap \ {v}) \cup ok,
                          scanned \cup {v})

dijkstra(dm, n) ==
    [i \in 1..n |->
        DijkstraScan(dm, n, [f \in 1..n |-> IF f = i THEN Num(0) ELSE PInf], {i}, {})]

(***************************************************************************)
(* numpy.exp is not rational: an affinity is [exp |-> FALSE, v |-> x] for  *)
(* the float x, or [exp |-> TRUE, v |-> a] for e^a with a finite and # 0   *)
(* (a value in (0,1) when a < 0).                                          *)
(***************************************************************************)
Plain(x) == [exp |-> FALSE, v |-> x]

Exp(a) ==
    IF IsNaN(a) THEN Plain(NaN)
    ELSE IF a = PInf THEN Plain(PInf)
    ELSE IF a = NInf THEN Plain(Num(0))
    ELSE IF a = Num(0) THEN Plain(Num(1))
    ELSE [exp |-> TRUE, v |-> a]

AffFinite(x) == x.exp \/ IsFinite(x.v)

isinf(x) == x = PInf \/ x = NInf

RECURSIVE SumRow(_, _)
SumRow(row, upto) == IF upto = 0 THEN Num(0) ELSE RAdd(SumRow(row, upto - 1), row[upto])

RECURSIVE SumMatrix(_, _, _)
SumMatrix(M, l, upto) ==
    IF upto = 0 THEN Num(0) ELSE RAdd(SumMatrix(M, l, upto - 1), SumRow(M[upto], l))

\* (a variant without the second W[inf_indices] = 0)
SimilarityKernelNoRezero(W0, l) ==
    LET inf_indices == {p \in (1..l) \X (1..l) : isinf(W0[p[1]][p[2]])}
        W1 == [i \in 1..l |-> [j \in 1..l |->
                  IF <<i, j>> \in inf_indices THEN Num(0) ELSE W0[i][j]]]
        sigma == RDiv(SumMatrix(W1, l, l), Num(l * l))
        den == RMul(Num(2), RMul(sigma, sigma))
    IN  [i \in 1..l |-> [j \in 1..l |->
            IF i = j THEN Plain(Num(1)) ELSE Exp(RDiv(RNeg(W1[i][j]), den))]]

\* lines 114-123 of _create_affinity_matrix, on the matrix of shortest paths
SimilarityKernel(W0, l) ==
    LET inf_indices == {p \in (1..l) \X (1..l) : isinf(W0[p[1]][p[2]])}
        W1 == [i \in 1..l |-> [j \in 1..l |->
                  IF <<i, j>> \in inf_indices THEN Num(0) ELSE W0[i][j]]]
        sigma == RDiv(SumMatrix(W1, l, l), Num(l * l))
        den == RMul(Num(2), RMul(sigma, sigma))
        W2 == [i \in 1..l |-> [j \in 1..l |-> Exp(RDiv(RNeg(W1[i][j]), den))]]
        W3 == [i \in 1..l |-> [j \in 1..l |->
                  IF <<i, j>> \in inf_indices THEN Plain(Num(0)) ELSE W2[i][j]]]
    IN  [i \in 1..l |-> [j \in 1..l |-> IF i = j THEN Plain(Num(1)) ELSE W3[i][j]]]

(***************************************************************************)
(* The numbers of the embedding.  The eigenvectors of the Laplacian are    *)
(* not rational: for a mesh whose connected parts have one or two faces    *)
(* their entries are in Q(sqrt 2), and <<p, q>> is the float               *)
(* p + q * sqrt(2) with p and q rational.  NaN is <<NaN, NaN>>.            *)
(***************************************************************************)
SNaN == <<NaN, NaN>>

SNum(r) == <<r, Num(0)>>

SZero == SNum(Num(0))

SIsNaN(x) == IsNaN(x[1]) \/ IsNaN(x[2])

SIsFinite(x) == IsFinite(x[1]) /\ IsFinite(x[2])

SCanon(x) == IF SIsNaN(x) THEN SNaN ELSE x

SNeg(x) == <<RNeg(x[1]), RNeg(x[2])>>

SAdd(x, y) == SCanon(<<RAdd(x[1], y[1]), RAdd(x[2], y[2])>>)

SSub(x, y) == SCanon(<<RSub(x[1], y[1]), RSub(x[2], y[2])>>)

SMul(x, y) ==
    SCanon(<<RAdd(RMul(x[1], y[1]), RMul(Num(2), RMul(x[2], y[2]))),
             RAdd(RMul(x[1], y[2]), RMul(x[2], y[1]))>>)

\* the sign of a finite p + q * sqrt(2): p and q of opposite signs are
\* compared by their squares
SSign(x) ==
    LET p == Sign(x[1][1])
        q == Sign(x[2][1])
    IN  IF q = 0 THEN p
        ELSE IF p = 0 \/ p = q THEN q
        ELSE IF RLess(RMul(Num(2), RMul(x[2], x[2])), RMul(x[1], x[1])) THEN p
        ELSE q

\* x < y; every comparison with NaN is false
SLess(x, y) == ~SIsNaN(x) /\ ~SIsNaN(y) /\ SSign(SSub(x, y)) < 0

SLeq(x, y) == ~SIsNaN(x) /\ ~SIsNaN(y) /\ ~SLess(y, x)

\* numpy true division: 0/0 is nan, x/0 is +-inf
SDiv(x, y) ==
    IF SIsNaN(x) \/ SIsNaN(y) THEN SNaN
    ELSE IF SSign(y) = 0
         THEN (IF SSign(x) = 0 THEN SNaN ELSE <<(<<SSign(x), 0>>), Num(0)>>)
    ELSE LET n == RSub(RMul(y[1], y[1]), RMul(Num(2), RMul(y[2], y[2])))
         IN  <<RDiv(RSub(RMul(x[1], y[1]), RMul(Num(2), RMul(x[2], y[2]))), n),
               RDiv(RSub(RMul(x[2], y[1]), RMul(x[1], y[2])), n)>>

ISqrt(x) == CHOOSE r \in 0..x : r * r = x

IsSquare(x) == \E r \in 0..x : r * r = x

\* a rational that is a square, or half a square
HasRoot(r) ==
    \/ IsSquare(r[1]) /\ IsSquare(r[2])
    \/ IsSquare(RMul(Num(2), r)[1]) /\ IsSquare(RMul(Num(2), r)[2])

\* the square root of a rational r that is a square, or half a square
SSqrt(x) ==
    LET r == x[1]
        d == RMul(Num(2), r)
    IN  IF IsSquare(r[1]) /\ IsSquare(r[2])
        THEN SNum(<<ISqrt(r[1]), ISqrt(r[2])>>)
        ELSE <<Num(0), RDiv(<<ISqrt(d[1]), ISqrt(d[2])>>, Num(2))>>

RECURSIVE Dot(_, _, _)
Dot(a, b, upto) ==
    IF upto = 0 THEN SZero ELSE SAdd(Dot(a, b, upto - 1), SMul(a[upto], b[upto]))

(***************************************************************************)
(* The eigenvectors of L = D^-1/2 W D^-1/2 (lines 165-174), for an         *)
(* affinity matrix W whose connected parts have one or two faces (a part   *)
(* of two faces i, j has W[i][j] = w > 0 and both degrees 1 + w).  L then  *)
(* has the eigenvalue 1 once for every part, with the eigenvectors that    *)
(* are constant on every part, and the eigenvalue (1 - w)/(1 + w) < 1 for  *)
(* every part of two faces, with the eigenvector (1, -1)/sqrt(2) on the    *)
(* part.  eigh and eigsh return unit eigenvectors for the c largest        *)
(* eigenvalues as columns, in ascending order of the eigenvalues; the sign *)
(* of a column is the solver's, and so is the basis of the eigenspace of   *)
(* the eigenvalue 1: an orthonormal frame, of which the model has those    *)
(* along the parts (in any order, with any signs) and two turned ones.     *)
(***************************************************************************)
Linked(Waff, i, j) == Waff[i][j] # Plain(Num(0))

RECURSIVE Component(_, _, _)
Component(Waff, l, S) ==
    LET T == S \cup {j \in 1..l : \E i \in S : Linked(Waff, i, j)}
    IN  IF T = S THEN S ELSE Component(Waff, l, T)

Least(S) == CHOOSE x \in S : \A y \in S : x <= y

RECURSIVE SeqOfParts(_)
SeqOfParts(cs) ==
    IF cs = {} THEN <<>>
    ELSE LET c == CHOOSE c \in cs : \A d \in cs : Least(c) <= Least(d)
         IN  <<c>> \o SeqOfParts(cs \ {c})

\* the connected parts of W, in the order of their first faces
Parts(Waff, l) == SeqOfParts({Component(Waff, l, {i}) : i \in 1..l})

PartOf(parts, i) == CHOOSE x \in 1..Len(parts) : i \in parts[x]

Injections(c, m) == {f \in [1..c -> 1..m] : \A x \in 1..c : \A y \in 1..c : x # y => f[x] # f[y]}

\* c of the m axes, in any order and with any signs
AxisFrames(m, c) ==
    {[r \in 1..m |-> [j \in 1..c |-> IF sel[j] = r THEN Num(sg[j]) ELSE Num(0)]] :
        sel \in Injections(c, m), sg \in [1..c -> {-1, 1}]}

\* the rotation by the angle of the 3-4-5 triangle in the first two axes
Turned(m) ==
    [r \in 1..m |-> [j \in 1..m |->
        IF r <= 2 /\ j <= 2
        THEN (IF r = j THEN Rat(3, 5) ELSE IF r = 1 THEN Rat(-4, 5) ELSE Rat(4, 5))
        ELSE IF r = j THEN Num(1) ELSE Num(0)]]

FirstCols(F, m, c) == [r \in 1..m |-> [j \in 1..c |-> F[r][j]]]

LastCols(F, m, c) == [r \in 1..m |-> [j \in 1..c |-> F[r][m - c + j]]]

\* orthonormal c-frames of the m-dimensional eigenspace of the eigenvalue 1
Frames(m, c) ==
    AxisFrames(m, c) \cup
    (IF m >= 2 THEN {FirstCols(Turned(m), m, c), LastCols(Turned(m), m, c)} ELSE {})

\* the entry at a face of the unit vector that is constant on the face's part
UnitOn(part) == IF Cardinality(part) = 1 THEN SNum(Num(1)) ELSE <<Num(0), Rat(1, 2)>>

\* the entry at face i of (1, -1)/sqrt(2) on a part of two faces
PairVector(part, i) ==
    IF i \notin part THEN SZero
    ELSE IF i = Least(part) THEN <<Num(0), Rat(1, 2)>>
    ELSE <<Num(0), Rat(-1, 2)>>

\* e^a with w = e^a the affinity of the two faces of a part
PairArg(Waff, part) ==
    LET i == Least(part)
        j == Least(part \ {i})
    IN  IF Waff[i][j].exp THEN Waff[i][j].v ELSE Num(0)

\* the parts of two faces with the t largest eigenvalues (the smallest
\* affinities), in ascending order of the eigenvalues
LowerPairs(Waff, parts, t) ==
    LET pairs == {x \in 1..Len(parts) : Cardinality(parts[x]) = 2}
        arg(x) == PairArg(Waff, parts[x])
    IN  {s \in [1..t -> pairs] :
            /\ \A x \in 1..t : \A y \in 1..t :
                  x < y => s[x] # s[y] /\ RLeq(arg(s[y]), arg(s[x]))
            /\ \A x \in 1..t : \A q \in pairs :
                  (\A y \in 1..t : s[y] # q) => RLeq(arg(s[x]), arg(q))}

Embeddings(Waff, l, c) ==
    LET parts == Parts(Waff, l)
        m == Len(parts)
        t == IF c > m THEN c - m ELSE 0
    IN  IF \E x \in 1..m : Cardinality(parts[x]) > 2 THEN {}
        ELSE {[i \in 1..l |-> [j \in 1..c |->
                  IF j <= t
                  THEN SMul(SNum(Num(sg[j])), PairVector(parts[low[j]], i))
                  ELSE SMul(SNum(F[PartOf(parts, i)][j - t]),
                            UnitOn(parts[PartOf(parts, i)]))]] :
                  low \in LowerPairs(Waff, parts, t),
                  sg \in [1..t -> {-1, 1}],
                  F \in Frames(m, c - t)}

\* L = D^-1/2 W D^-1/2 is finite exactly if every affinity is: each row sum
\* then is finite and, the diagonal being 1 and no affinity negative, > 0
LaplacianFinite(W, l) == \A i \in 1..l : \A j \in 1..l : AffFinite(W[i][j])

\* V /= numpy.linalg.norm(V, axis=1)[:,None]; a zero row becomes 0/0 = NaN
NormalizeRows(V, l, c) ==
    [i \in 1..l |->
        LET norm == SSqrt(Dot(V[i], V[i], c))
        IN  [j \in 1..c |-> SDiv(V[i][j], norm)]]

Cols(V) == IF Len(V) = 0 THEN 0 ELSE Len(V[1])

HasNaN(V) == \E i \in 1..Len(V) : \E j \in 1..Len(V[i]) : ~SIsFinite(V[i][j])

(***************************************************************************)
(* Q = V.dot(V.transpose()) in float64.  The entries of V are doubles: the *)
(* eigen solver's, divided by the rounded norm of their row (line 176).    *)
(* Rows of one real value need not be the same doubles: (3,3)/sqrt(18) is  *)
(* (0.7071067811865476, ..76), (4,4)/sqrt(32) is (0.7071067811865475,      *)
(* ..75).  Every product and every partial sum of line 184 is rounded too, *)
(* so an entry of Q is its real value up to a few units in the last place: *)
(* for these two rows Q is 1 + 2^-52, 1, 1 and 1 - 2^-52.  An entry is     *)
(* kept as its real value, val, and in keys what fixes its rounding:       *)
(*   - a row with one entry x that is not 0 is divided by sqrt(x*x) = |x|, *)
(*     so the entries 0, 1 and -1 of V are these doubles; a sum of         *)
(*     products of them is exact and has the key ExactKey;                 *)
(*   - any other entry of Q is rounded, and has as its key its position,   *)
(*     the faces {i, j}: Q[i][j] and Q[j][i] add the same products in the  *)
(*     same order and are one double.                                      *)
(* Two entries of one value and one key are the same double; how two       *)
(* entries of one value with different keys compare is left open.          *)
(***************************************************************************)
\* a double that is its real value
Exact(x) == x \in {SZero, SNum(Num(1)), SNum(Num(-1))}

ExactKey == {}

SumKey(V, i, j) ==
    IF \A t \in 1..Cols(V) :
           V[i][t] = SZero \/ V[j][t] = SZero \/ (Exact(V[i][t]) /\ Exact(V[j][t]))
    THEN ExactKey
    ELSE {i, j}

FloatDot(V, i, j) ==
    LET d == Dot(V[i], V[j], Cols(V))
    IN  IF SIsNaN(d) THEN [val |-> SNaN, keys |-> {}]
        ELSE [val |-> d, keys |-> {SumKey(V, i, j)}]

\* Q = V.dot(V.transpose())
Association(V) ==
    [i \in 1..Len(V) |-> [j \in 1..Len(V) |-> FloatDot(V, i, j)]]

(***************************************************************************)
(* numpy.argmin on a vector of exact numbers: the first position of the    *)
(* minimum; a NaN is the minimum.  Positions are 1-based here.             *)
(***************************************************************************)
RECURSIVE ArgminScan(_, _, _)
ArgminScan(s, pos, best) ==
    IF pos > Len(s) THEN best
    ELSE IF SIsNaN(s[best]) THEN best
    ELSE IF SIsNaN(s[pos]) \/ SLess(s[pos], s[best])
         THEN ArgminScan(s, pos + 1, pos)
         ELSE ArgminScan(s, pos + 1, best)

argmin(s) == ArgminScan(s, 2, 1)

(***************************************************************************)
(* numpy.max and numpy.argmin on floats of Q.  The maximum of floats of    *)
(* one value is the largest of the floats its keys stand for.  argmin      *)
(* returns the first position of the least float: the first NaN if there   *)
(* is one; else a position p of the least value such that no position q    *)
(* before it is surely as small (keys of q among the keys of p).           *)
(***************************************************************************)
FloatMax(s) ==
    IF \E x \in 1..Len(s) : SIsNaN(s[x].val) THEN [val |-> SNaN, keys |-> {}]
    ELSE LET top == CHOOSE v \in {s[x].val : x \in 1..Len(s)} :
                        \A x \in 1..Len(s) : SLeq(s[x].val, v)
         IN  [val |-> top,
              keys |-> UNION {s[x].keys : x \in {y \in 1..Len(s) : s[y].val = top}}]

FloatArgmin(s) ==
    IF \E x \in 1..Len(s) : SIsNaN(s[x].val)
    THEN {CHOOSE x \in 1..Len(s) :
              SIsNaN(s[x].val) /\ \A y \in 1..(x - 1) : ~SIsNaN(s[y].val)}
    ELSE LET least == {p \in 1..Len(s) : \A q \in 1..Len(s) : SLeq(s[p].val, s[q].val)}
         IN  {p \in least : \A q \in least : q < p => ~(s[q].keys \subseteq s[p].keys)}

(***************************************************************************)
(* _initial_guess(Q, k): the lists of indices the floats of Q allow        *)
(***************************************************************************)
Flatten(Q) ==
    LET l == Len(Q)
    IN  [p \in 1..(l * l) |-> Q[((p - 1) \div l) + 1][((p - 1) % l) + 1]]

\* numpy.unravel_index(numpy.argmin(Q), Q.shape)
MinIndices(Q) ==
    {<<((p - 1) \div Len(Q)) + 1, ((p - 1) % Len(Q)) + 1>> : p \in FloatArgmin(Flatten(Q))}

\* (a variant that looks at the first chosen row only: Q[chosen[0],:])
ChosenMaxFirst(Q, chosen) == [j \in 1..Len(Q) |-> Q[chosen[1]][j]]

\* numpy.max(Q[chosen,:], axis=0)
ChosenMax(Q, chosen) ==
    [j \in 1..Len(Q) |-> FloatMax([x \in 1..Len(chosen) |-> Q[chosen[x]][j]])]

RECURSIVE GreedyRounds(_, _, _)
GreedyRounds(Q, chosen, rounds) ==
    IF rounds <= 0 THEN {chosen}
    ELSE UNION {GreedyRounds(Q, Append(chosen, j), rounds - 1) :
                   j \in FloatArgmin(ChosenMax(Q, chosen))}

\* chosen = [min_indices[0], min_indices[1]]; for _ in range(2, k): ...
_initial_guess(Q, kk) == UNION {GreedyRounds(Q, m, kk - 2) : m \in MinIndices(Q)}

(***************************************************************************)
(* scipy.cluster.vq.kmeans2(data, init, iter).  Labels are 0-based.        *)
(* (<<>> \o f is the sequence f, written so that TLC computes its elements *)
(* once.)                                                                  *)
(***************************************************************************)
KmeansIter == 50

RECURSIVE SqDist(_, _, _)
SqDist(x, c, upto) ==
    IF upto = 0 THEN SZero
    ELSE SAdd(SqDist(x, c, upto - 1),
              SMul(SSub(x[upto], c[upto]), SSub(x[upto], c[upto])))

\* vq(data, code_book)[0]: the index of the nearest centroid, the first one
\* among equally near ones
vq(data, code_book) == <<>> \o
    [x \in 1..Len(data) |->
        argmin([c \in 1..Len(code_book) |->
                    SqDist(data[x], code_book[c], Len(data[x]))]) - 1]

RECURSIVE SumMembers(_, _, _, _, _)
SumMembers(data, label, c, j, upto) ==
    IF upto = 0 THEN SZero
    ELSE IF label[upto] = c
         THEN SAdd(SumMembers(data, label, c, j, upto - 1), data[upto][j])
         ELSE SumMembers(data, label, c, j, upto - 1)

\* update_cluster_means, and an empty cluster keeps its previous centroid
UpdateCodeBook(data, label, code_book) == <<>> \o
    [c \in 1..Len(code_book) |->
        LET members == {x \in 1..Len(data) : label[x] = c - 1}
        IN  IF members = {} THEN code_book[c]
            ELSE <<>> \o [j \in 1..Len(code_book[c]) |->
                    SDiv(SumMembers(data, label, c - 1, j, Len(data)),
                         SNum(Num(Cardinality(members))))]]

\* for i in range(iter): label = vq(...); code_book = update(...).  Once an
\* iteration leaves the code book as it was, every later one repeats it, so
\* the loop is cut there.
RECURSIVE Lloyd(_, _, _)
Lloyd(data, code_book, i) ==
    LET label == vq(data, code_book)
        new_code_book == UpdateCodeBook(data, label, code_book)
    IN  IF i + 1 >= KmeansIter \/ new_code_book = code_book
        THEN [code_book |-> new_code_book, label |-> label]
        ELSE Lloyd(data, new_code_book, i + 1)

\* (a variant that numbers the clusters from 1)
kmeans2LabelsFromOne(data, init) ==
    LET r == Lloyd(data, init, 0)
    IN  [code_book |-> r.code_book,
         label |-> <<>> \o [x \in 1..Len(r.label) |-> r.label[x] + 1]]

kmeans2(data, init) == Lloyd(data, init, 0)

\* minit='++' (_kpp): the first centre is any observation; every later one is
\* data[searchsorted(cumsum(D2 / sum(D2)), r)] for a uniform r in [0,1): an
\* observation with D2 > 0, or the first observation (r = 0, or sum(D2) = 0)
MinSqDist(data, x, centres) ==
    LET d == [c \in 1..Len(centres) |-> SqDist(data[x], data[centres[c]], Len(data[x]))]
    IN  d[argmin(d)]

KppNext(data, centres) ==
    {1} \cup {x \in 1..Len(data) : SLess(SZero, MinSqDist(data, x, centres))}

RECURSIVE KppFrom(_, _, _)
KppFrom(data, centres, kk) ==
    IF Len(centres) >= kk THEN {centres}
    ELSE UNION {KppFrom(data, Append(centres, x), kk) : x \in KppNext(data, centres)}

Kpp(data, kk) == UNION {KppFrom(data, <<x>>, kk) : x \in 1..Len(data)}

RowsAt(V, indices) == <<>> \o [x \in 1..Len(indices) |-> V[indices[x]]]

(***************************************************************************)
(* The state: the module globals delta and eta (<<>> is None, <<c>> the    *)
(* float c tenths), the arguments and locals of the running segment_mesh   *)
(* call, and what the action callback has been given.  pc is the stage the *)
(* call is at; error is the exception that ended it there ("" while none). *)
(* calls counts the calls made; before is the value of the globals when    *)
(* the running call was made.                                              *)
(***************************************************************************)
VARIABLES delta, eta, pc, error, mesh, k, coefficients, action, ev_method,
          kmeans_init, adj_faces_map, distance_matrix, W, V,
          initial_centroids, idx, delivered, calls, before

vars == <<delta, eta, pc, error, mesh, k, coefficients, action, ev_method,
          kmeans_init, adj_faces_map, distance_matrix, W, V,
          initial_centroids, idx, delivered, calls, before>>

globals == <<delta, eta>>

args == <<mesh, k, coefficients, action, ev_method, kmeans_init>>

locals == <<adj_faces_map, distance_matrix, W, V, initial_centroids, idx>>

(***************************************************************************)
(* The inputs.                                                             *)
(***************************************************************************)
GeoVals == {0, 2}

AngVals == {<<0, FALSE>>, <<1, FALSE>>, <<1, TRUE>>}

Deltas == {0, 5, 10}

Etas == {0, 5}

\* the arguments of whole calls.  The meshes have the one edge key 1.  Two
\* faces: any lists and geometry, any k from 1 to one more than the faces,
\* a delta inside or outside [0,1], with or without an action.  More faces:
\* each lists the edge at most once; no face has it (the faces are apart),
\* or it lies between two or more.
TwoFaceMeshes == Meshes(2, {1}, GeoVals, {<<0, FALSE>>, <<1, TRUE>>})

LargerMeshes ==
    UNION {{m \in Meshes(n, {1}, {2}, {<<1, TRUE>>}) :
               /\ \A f \in 1..n : Len(m.edge_keys[f]) <= 1
               /\ Cardinality(IncidentFaces(n, m.edge_keys, 1)) # 1}
           : n \in 3..MaxFaces}

CallCoefficients == {<<-1, 5>>, <<5, 5>>}

CallArguments ==
    {[mesh |-> m, k |-> kk, coefficients |-> c, action |-> a] :
        m \in TwoFaceMeshes, kk \in 1..3, c \in CallCoefficients, a \in BOOLEAN}
    \cup
    UNION {{[mesh |-> m, k |-> kk, coefficients |-> <<5, 5>>, action |-> TRUE] :
               kk \in 1..(m.n + 1)} : m \in LargerMeshes}

\* meshes for the distance and affinity stages
AllMeshes == UNION {Meshes(n, 1..MaxEdgeKeys, GeoVals, AngVals) : n \in 2..MaxFaces}

NoLocals ==
    /\ adj_faces_map = <<>>
    /\ distance_matrix = <<>>
    /\ W = <<>>
    /\ V = <<>>
    /\ initial_centroids = <<>>
    /\ idx = <<>>

Init ==
    /\ delta = <<>>
    /\ eta = <<>>
    /\ pc = "call"
    /\ error = ""
    /\ \E a \in CallArguments :
          /\ mesh = a.mesh
          /\ k = a.k
          /\ coefficients = a.coefficients
          /\ action = a.action
    /\ ev_method \in {"dense", "sparse"}
    /\ kmeans_init \in {"kmeans++", "greedy"}
    /\ NoLocals
    /\ delivered = <<>>
    /\ calls = 1
    /\ before = <<<<>>, <<>>>>

Running(stage) == pc = stage /\ error = ""

\* lines 157-159: delta, eta = coefficients
SetCoefficients ==
    /\ Running("call")
    /\ delta' = <<coefficients[1]>>
    /\ eta' = <<coefficients[2]>>
    /\ pc' = "adjacency"
    /\ UNCHANGED <<error, args, locals, delivered, calls, before>>

\* lines 57-65
BuildAdjacency ==
    /\ Running("adjacency")
    /\ adj_faces_map' = AdjacencyMap(mesh)
    /\ pc' = "distance"
    /\ UNCHANGED <<globals, error, args, distance_matrix, W, V,
                   initial_centroids, idx, delivered, calls, before>>

\* lines 67-101
CreateDistanceMatrix ==
    /\ Running("distance")
    /\ distance_matrix' =
           DistanceMatrix(mesh, adj_faces_map, Coef(delta[1]), Coef(eta[1]))
    /\ pc' = "dijkstra"
    /\ UNCHANGED <<globals, error, args, adj_faces_map, W, V,
                   initial_centroids, idx, delivered, calls, before>>

\* line 113
ShortestPaths ==
    /\ Running("dijkstra")
    /\ W' = dijkstra(distance_matrix, mesh.n)
    /\ pc' = "kernel"
    /\ UNCHANGED <<globals, error, args, adj_faces_map, distance_matrix, V,
                   initial_centroids, idx, delivered, calls, before>>

\* lines 114-125
AffinityKernel ==
    /\ Running("kernel")
    /\ W' = SimilarityKernel(W, mesh.n)
    /\ pc' = "embed"
    /\ UNCHANGED <<globals, error, args, adj_faces_map, distance_matrix, V,
                   initial_centroids, idx, delivered, calls, before>>

(***************************************************************************)
(* Lines 165-176: the Laplacian, the eigenvectors and the row              *)
(* normalisation.  scipy.linalg.eigh refuses an index range outside        *)
(* 0..l-1 and a matrix that is not finite (ValueError), and, from the      *)
(* library version on that has no eigvals argument any more, every call    *)
(* that passes it (TypeError).  eigsh asked for k >= l eigenvectors either *)
(* refuses, or falls back to eigh and returns all l of them, depending on  *)
(* the library version.                                                    *)
(***************************************************************************)
Raised(e) == [err |-> e, V |-> <<>>]

Eigh(Waff, l, c) ==
    IF LaplacianFinite(Waff, l)
    THEN {[err |-> "", V |-> v] : v \in Embeddings(Waff, l, c)}
    ELSE {Raised("ValueError")}

Eigenvectors(Waff, l, kk, method) ==
    IF method = "dense"
    THEN {Raised("TypeError")} \cup
         (IF l - kk < 0 \/ l - kk > l - 1
          THEN {Raised("ValueError")}
          ELSE Eigh(Waff, l, kk))
    ELSE (IF kk >= l
          THEN {Raised("ValueError")} \cup Eigh(Waff, l, l)
          ELSE Eigh(Waff, l, kk))

SpectralEmbedding ==
    /\ Running("embed")
    /\ \E o \in Eigenvectors(W, mesh.n, k, ev_method) :
          /\ error' = o.err
          /\ V' = IF o.err = "" THEN NormalizeRows(o.V, mesh.n, Cols(o.V)) ELSE V
          /\ pc' = IF o.err = "" THEN "cluster" ELSE pc
    /\ UNCHANGED <<globals, args, adj_faces_map, distance_matrix, W,
                   initial_centroids, idx, delivered, calls, before>>

\* lines 178-180; kmeans2 refuses data that is not finite (ValueError)
ClusterKmeansPP ==
    /\ Running("cluster")
    /\ kmeans_init = "kmeans++"
    /\ IF HasNaN(V)
       THEN error' = "ValueError" /\ UNCHANGED <<pc, idx>>
       ELSE \E init \in {RowsAt(V, centres) : centres \in Kpp(V, k)} :
               /\ idx' = kmeans2(V, init).label
               /\ pc' = "done"
               /\ error' = error
    /\ UNCHANGED <<globals, args, adj_faces_map, distance_matrix, W, V,
                   initial_centroids, delivered, calls, before>>

\* lines 182-186
GreedyInit ==
    /\ Running("cluster")
    /\ kmeans_init # "kmeans++"
    /\ initial_centroids' \in _initial_guess(Association(V), k)
    /\ pc' = "seeded"
    /\ UNCHANGED <<globals, error, args, adj_faces_map, distance_matrix, W, V,
                   idx, delivered, calls, before>>

\* lines 188-189
GreedyKmeans ==
    /\ Running("seeded")
    /\ IF HasNaN(V)
       THEN error' = "ValueError" /\ UNCHANGED <<pc, idx>>
       ELSE /\ idx' = kmeans2(V, RowsAt(V, initial_centroids)).label
            /\ pc' = "done"
            /\ error' = error
    /\ UNCHANGED <<globals, args, adj_faces_map, distance_matrix, W, V,
                   initial_centroids, delivered, calls, before>>

\* (a variant that invokes the action once for each cluster)
PerformActionPerCluster ==
    /\ Running("done")
    /\ delivered' = IF action
                    THEN [x \in 1..k |-> [mesh |-> mesh, k |-> k, idx |-> idx]]
                    ELSE delivered
    /\ pc' = "returned"
    /\ UNCHANGED <<globals, error, args, locals, calls, before>>

\* lines 191-194: if action: action(mesh, k, idx)
PerformAction ==
    /\ Running("done")
    /\ delivered' = IF action
                    THEN Append(delivered, [mesh |-> mesh, k |-> k, idx |-> idx])
                    ELSE delivered
    /\ pc' = "returned"
    /\ UNCHANGED <<globals, error, args, locals, calls, before>>

Next ==
    \/ SetCoefficients
    \/ BuildAdjacency
    \/ CreateDistanceMatrix
    \/ ShortestPaths
    \/ AffinityKernel
    \/ SpectralEmbedding
    \/ ClusterKmeansPP
    \/ GreedyInit
    \/ GreedyKmeans
    \/ PerformAction

Spec == Init /\ [][Next]_vars

(***************************************************************************)
(* A later call of segment_mesh in the same process: new arguments and     *)
(* fresh locals; the module globals are whatever the earlier call left.    *)
(***************************************************************************)
SeqMeshes == Meshes(2, {1}, {2}, {<<1, TRUE>>})

SeqCoefficients == {<<5, 5>>, <<10, 0>>}

NextCall ==
    /\ pc = "returned" \/ error # ""
    /\ calls < MaxCalls
    /\ calls' = calls + 1
    /\ before' = <<delta, eta>>
    /\ pc' = "call"
    /\ error' = ""
    /\ mesh' \in SeqMeshes
    /\ k' = 2
    /\ coefficients' \in SeqCoefficients
    /\ action' \in BOOLEAN
    /\ ev_method' \in {"dense", "sparse"}
    /\ kmeans_init' \in {"kmeans++", "greedy"}
    /\ adj_faces_map' = <<>>
    /\ distance_matrix' = <<>>
    /\ W' = <<>>
    /\ V' = <<>>
    /\ initial_centroids' = <<>>
    /\ idx' = <<>>
    /\ delivered' = <<>>
    /\ UNCHANGED globals

InitCalls ==
    /\ delta = <<>>
    /\ eta = <<>>
    /\ pc = "call"
    /\ error = ""
    /\ mesh \in SeqMeshes
    /\ k = 2
    /\ coefficients \in SeqCoefficients
    /\ action \in BOOLEAN
    /\ ev_method \in {"dense", "sparse"}
    /\ kmeans_init \in {"kmeans++", "greedy"}
    /\ NoLocals
    /\ delivered = <<>>
    /\ calls = 1
    /\ before = <<<<>>, <<>>>>

NextCalls == Next \/ NextCall

SpecCalls == InitCalls /\ [][NextCalls]_vars

(***************************************************************************)
(* _create_affinity_matrix(mesh) on its own, with the globals set.         *)
(***************************************************************************)
InitAffinity ==
    /\ coefficients \in Deltas \X Etas
    /\ delta = <<coefficients[1]>>
    /\ eta = <<coefficients[2]>>
    /\ pc = "adjacency"
    /\ error = ""
    /\ mesh \in AllMeshes
    /\ k = 2
    /\ action = FALSE
    /\ ev_method = "dense"
    /\ kmeans_init = "greedy"
    /\ NoLocals
    /\ delivered = <<>>
    /\ calls = 1
    /\ before = <<<<>>, <<>>>>

NextAffinity ==
    \/ BuildAdjacency
    \/ CreateDistanceMatrix
    \/ ShortestPaths
    \/ AffinityKernel

SpecAffinity == InitAffinity /\ [][NextAffinity]_vars

(***************************************************************************)
(* Properties.                                                             *)
(***************************************************************************)
ValidK == 2 <= k /\ k <= mesh.n

ValidDelta == 0 <= coefficients[1] /\ coefficients[1] <= CoefUnit

StageCompleted == pc \notin {"call", "adjacency"}

\* the entries the distance stage collects for the call's mesh and eta
CallEntries ==
    Entries(mesh, AdjacencyMap(mesh), MaxKey(mesh), Coef(coefficients[2]))

\* no adjacent pair, or every geodesic distance 0, or every angular distance 0
Degenerate ==
    \/ CallEntries = <<>>
    \/ \A x \in 1..Len(CallEntries) : CallEntries[x].G = Num(0)
    \/ \A x \in 1..Len(CallEntries) : CallEntries[x].A = Num(0)

\* C1: for 2 <= k <= face count, what a completed call hands to the action
\* is one label per face, every label in 0..k-1, and a call that returns
\* with an action given has handed it over
C1_LabelPerFace ==
    /\ \A x \in 1..Len(delivered) :
          LET d == delivered[x]
          IN  (2 <= d.k /\ d.k <= d.mesh.n) =>
                  /\ DOMAIN d.idx = 1..d.mesh.n
                  /\ \A f \in 1..d.mesh.n : d.idx[f] \in 0..(d.k - 1)
    /\ (pc = "returned" /\ action /\ ValidK) => Len(delivered) = 1

C1_Witness ==
    /\ pc = "returned"
    /\ ValidK
    /\ mesh.n = 3
    /\ kmeans_init = "kmeans++"
    /\ Len(delivered) = 1
    /\ {delivered[1].idx[f] : f \in 1..mesh.n} = 0..(k - 1)

\* C2: within a call the action is invoked at most once, and only when the
\* clustering has finished: with the full per-face assignment it produced
C2_SinkOnceAfterClustering ==
    /\ Len(delivered) <= 1
    /\ delivered # <<>> =>
          /\ pc = "returned"
          /\ error = ""
          /\ delivered[1].idx = idx
          /\ DOMAIN idx = 1..mesh.n

C2_Witness ==
    /\ pc = "returned"
    /\ delivered # <<>>
    /\ kmeans_init = "greedy"

\* C3: a call with k < 2, k > face count or delta outside [0,1] ends in
\* InputError: no stage is completed and the action is not invoked
C3_InvalidInputRejected ==
    (~ValidK \/ ~ValidDelta) =>
        /\ ~StageCompleted
        /\ error \in {"", "InputError"}
        /\ delivered = <<>>

\* C4: with no adjacent pair, or all geodesic or all angular distances 0,
\* the distance stage raises a numeric-domain error: no later stage is
\* entered and the action is not invoked
C4_DegenerateRaises ==
    (Degenerate /\ ValidK /\ ValidDelta) =>
        /\ pc \in {"call", "adjacency", "distance"}
        /\ error \in {"", "NumericDomainError"}
        /\ delivered = <<>>

\* C5: once a call has ended, the process-wide state is what it was before
\* the call
C5_NoStateSurvives ==
    (pc = "returned" \/ error # "") => globals = before

\* the association matrix of the embedding the greedy initialisation is given
Q == Association(V)

\* x <= y for two entries of Q: false if either is a NaN, as in IEEE 754.
\* Entries of one real value are within rounding of each other and which of
\* them is the least float is open in Association, so they count as <=.
FloatLeq(x, y) == SLeq(x.val, y.val)

\* the largest association of face j to the first t of the chosen indices
MaxChosenAssociation(t, j) ==
    FloatMax([x \in 1..t |-> Q[initial_centroids[x]][j]])

DistinctIndices ==
    \A x \in DOMAIN initial_centroids : \A y \in DOMAIN initial_centroids :
        x # y => initial_centroids[x] # initial_centroids[y]

\* C6: for an embedding V with unit-length rows and 2 <= k <= face count,
\* the indices _initial_guess returns for Q = V V^T contain no face twice,
\* also when several faces have the same row
C6_NoIndexTwice ==
    (pc = "seeded" /\ ValidK /\ ~HasNaN(V)) => DistinctIndices

C6_Witness ==
    /\ pc = "seeded"
    /\ ValidK
    /\ ~HasNaN(V)
    /\ \E i \in 1..mesh.n : \E j \in 1..mesh.n : i # j /\ V[i] = V[j]
    /\ Len(initial_centroids) = k
    /\ DistinctIndices

\* C7: for every association matrix Q the first two indices (a,b) chosen
\* satisfy Q[a,b] <= Q[i,j] for all faces i and j
C7_FirstPairGlobalMin ==
    pc = "seeded" =>
        \A i \in 1..mesh.n : \A j \in 1..mesh.n :
            FloatLeq(Q[initial_centroids[1]][initial_centroids[2]], Q[i][j])

\* C8: for 2 <= k <= face count the greedy initialisation returns exactly k
\* indices of faces, the rows of V that seed k-means: the two faces of a
\* pair of least association, and then in each round a face whose largest
\* association to the indices chosen before it is the least over all faces
C8_GreedySeeds ==
    (pc = "seeded" /\ ValidK) =>
        /\ Len(initial_centroids) = k
        /\ \A x \in 1..k : initial_centroids[x] \in 1..mesh.n
        /\ Len(RowsAt(V, initial_centroids)) = k
        /\ \A i \in 1..mesh.n : \A j \in 1..mesh.n :
              FloatLeq(Q[initial_centroids[1]][initial_centroids[2]], Q[i][j])
        /\ \A t \in 3..k : \A j \in 1..mesh.n :
              FloatLeq(MaxChosenAssociation(t - 1, initial_centroids[t]),
                       MaxChosenAssociation(t - 1, j))

\* the faces that share edge e
Sharing(e) == IncidentFaces(mesh.n, mesh.edge_keys, e)

DistanceBuilt == pc \in {"dijkstra", "kernel", "embed"} /\ error = ""

\* C9: the distance matrix has an entry (i,j) only if faces i and j share
\* an edge with exactly two incident faces, and then (j,i) is an entry with
\* the same value; edges with one face or more than two add no entry, and
\* do not abort the run
C9_DistanceEntries ==
    /\ DistanceBuilt =>
          \A p \in DOMAIN distance_matrix :
              /\ p[1] # p[2]
              /\ \E e \in KeysOf(mesh) : Sharing(e) = {p[1], p[2]}
              /\ <<p[2], p[1]>> \in DOMAIN distance_matrix
              /\ distance_matrix[<<p[2], p[1]>>] = distance_matrix[p]
    /\ pc = "distance" => error = ""

\* the faces a path of entries of the distance matrix leads to from S
RECURSIVE Reach(_)
Reach(S) ==
    LET T == S \cup {j \in 1..mesh.n : \E i \in S : <<i, j>> \in DOMAIN distance_matrix}
    IN  IF T = S THEN S ELSE Reach(T)

\* C10: in the affinity matrix every diagonal entry is 1 and every entry
\* of two faces that no path connects is 0; no diagonal entry of the
\* shortest-path matrix is infinite, so none is among the zeroed ones
C10_DiagonalAndUnreachable ==
    /\ Running("embed") =>
          \A i \in 1..mesh.n :
              /\ W[i][i] = Plain(Num(1))
              /\ \A j \in (1..mesh.n) \ Reach({i}) : W[i][j] = Plain(Num(0))
    /\ Running("kernel") => \A i \in 1..mesh.n : ~isinf(W[i][i])

C10_Witness ==
    /\ Running("embed")
    /\ mesh.n = 3
    /\ Reach({1}) = {1, 2}
    /\ W[1][2].exp
    /\ W[3][1] = Plain(Num(0))
    /\ W[3][3] = Plain(Num(1))

====
